---------------------------- MODULE Spec2Model ----------------------------
(***************************************************************************)
(* A model of the pipeline execution engine of trt_pose_demo               *)
(* (src/video_app_utils.py): PipelineWorker stages, each with its own      *)
(* thread and bounded output queue, chained through their source           *)
(* arguments, and the ContinuousVideoProcess orchestrator that starts      *)
(* them, pulls from the terminal stage and stops them.                     *)
(*                                                                         *)
(* Stage 1 is the ContinuousVideoCapture (the head); stage i > 1 is a      *)
(* PipelineWorker subclass constructed with source = stage i - 1.          *)
(* Every statement of _run that touches state shared between threads is    *)
(* one step of the worker, so that every interleaving the interpreter can  *)
(* produce between a worker, its consumer and the orchestrator is a        *)
(* behaviour of the model.                                                 *)
(***************************************************************************)
EXTENDS Integers, Sequences, FiniteSets, TLC

\* Bounds of the model.
MaxStages == 2      \* longest chain that is built
MaxCap == 2         \* largest qsize handed to a constructor
MaxItems == 3       \* frames the camera delivers in the bounded stream
MaxSamples == 3     \* largest numSamples handed to an IntervalCounter
MaxDelta == 2       \* longest time between two readings of the clock
MaxCalls == 5       \* calls of measure on one IntervalCounter

\* self.fpsCounter = IntervalCounter(10)
FpsSamples == 10

None == 0           \* Python's None, for references and unset locals

VARIABLES
    nStages,        \* number of PipelineWorker objects in the chain
    source,         \* source[i]: PipelineWorker.source (None for the head)
    destination,    \* destination[i]: PipelineWorker.destination
    qsize,          \* qsize[i]: the qsize argument of the constructor
    maxsize,        \* maxsize[i]: maxsize of self.queue (queue.Queue(qsize))
    queue,          \* queue[i]: contents of self.queue, oldest first
    flag,           \* flag[i]: PipelineWorker.flag
    numDrops,       \* numDrops[i]: PipelineWorker.numDrops
    pc,             \* pc[i]: position of stage i's thread in _run
    src,            \* src[i]: local src of _run
    dat,            \* dat[i]: local dat of _run
    pipeline,       \* ContinuousVideoProcess.pipeline (<<>> until scanned)
    opc,            \* position of the main thread in execute()
    oidx,           \* index of the for loops of startPipeline/stopPipeline
    nextFrame,      \* number of the frame the camera delivers next
    track,          \* TRUE: bounded stream of numbered frames, with history
    pushed,         \* history: pushed[i], items put on queue[i], in order
    got,            \* history: got[i], items returned by stage i's get()
    evicted,        \* history: evicted[i], items removed by the worker itself
    failed,         \* history: failed[i], _run left the loop on ret == False
    stopMark,       \* history: stopMark[i], how many items stage i had put
                    \* when stop() cleared its flag with its thread inside
                    \* the loop of _run (-1 before that)
    numSamples,     \* IntervalCounter.numSamples
    samples,        \* IntervalCounter.samples, oldest first
    lastTime,       \* IntervalCounter.lastTime
    count,          \* IntervalCounter.count
    result,         \* what the last call of measure returned
    intervals       \* history: the elapsed time of every call of measure

vars == <<nStages, source, destination, qsize, maxsize, queue, flag,
          numDrops, pc, src, dat, pipeline, opc, oidx, nextFrame, track,
          pushed, got, evicted, failed, stopMark,
          numSamples, samples, lastTime, count, result, intervals>>

\* The IntervalCounter of the orchestrator.  Nothing in the pipeline reads
\* it: its value goes into the text drawn on the displayed frame only.
meter == <<numSamples, samples, lastTime, count, result, intervals>>

Stages == 1..nStages

\* What the constructors set and nothing changes afterwards.
wiring == <<nStages, source, destination, qsize, maxsize, track>>

-----------------------------------------------------------------------------
(* Construction: PipelineWorker.__init__ and the chain wired by main.      *)

\* Variant: the queue is created without its maxsize, queue.Queue().
QueueUnbounded(n) == 0

\* queue.Queue(qsize): the maxsize the queue is created with.
QueueMaxsize(n) == n

\* queue.Queue.full(): a maxsize <= 0 means an unbounded queue.
QueueFull(q, m) == m > 0 /\ Len(q) >= m

\* The source/destination references after constructing stages 1..n in
\* order, stage i with source = stage i - 1 (the head with no source).
RECURSIVE Wire(_)
Wire(n) ==
    IF n = 0 THEN [source |-> <<>>, destination |-> <<>>]
    ELSE LET w == Wire(n - 1)
             s == IF n = 1 THEN None ELSE n - 1
             \* self.source.destination = self
             d == IF s = None THEN w.destination
                  ELSE [w.destination EXCEPT ![s] = n]
         IN  [source |-> Append(w.source, s),
              \* self.destination = None
              destination |-> Append(d, None)]

\* The deterministic transform of stage i (process of a subclass).
Transform(i, x) == 10 * x + i

\* What the whole chain up to stage k makes of frame n.
RECURSIVE Compose(_, _)
Compose(k, n) == IF k = 1 THEN n ELSE Transform(k, Compose(k - 1, n))

\* History is recorded, and counters count, only in the bounded stream; the
\* endless stream abstracts every frame to frame 1 and keeps counters fixed
\* so that its state space is finite.
Record(h, x) == IF track THEN Append(h, x) ELSE h
Bump(n) == IF track THEN n + 1 ELSE n

\* np.zeros(n)
NpZeros(n) == [k \in 1..n |-> 0]

\* measure returned None, or nothing has been returned yet.
NoAverage == <<>>

\* IntervalCounter.__init__(numSamples), the clock reading t.
IntervalCounterInit(K, t) ==
    /\ numSamples = K
    /\ samples = NpZeros(K)
    /\ lastTime = t
    /\ count = 0
    /\ result = NoAverage
    /\ intervals = <<>>

\* The stages as main constructs them, before anything is started.
PipelineInit(t) ==
    /\ track = t
    /\ nStages \in 1..MaxStages
    /\ source = Wire(nStages).source
    /\ destination = Wire(nStages).destination
    /\ qsize \in [1..nStages -> 1..MaxCap]
    /\ maxsize = [i \in 1..nStages |-> QueueMaxsize(qsize[i])]
    /\ queue = [i \in 1..nStages |-> <<>>]
    /\ flag = [i \in 1..nStages |-> FALSE]
    /\ numDrops = [i \in 1..nStages |-> 0]
    /\ pc = [i \in 1..nStages |-> "none"]
    /\ src = [i \in 1..nStages |-> <<>>]
    /\ dat = [i \in 1..nStages |-> None]
    /\ pipeline = <<>>
    /\ opc = "scan"
    /\ oidx = 0
    /\ nextFrame = 1
    /\ pushed = [i \in 1..nStages |-> <<>>]
    /\ got = [i \in 1..nStages |-> <<>>]
    /\ evicted = [i \in 1..nStages |-> <<>>]
    /\ failed = [i \in 1..nStages |-> FALSE]
    /\ stopMark = [i \in 1..nStages |-> -1]

\* ContinuousVideoProcess.__init__ creates the IntervalCounter(10).
InitWith(t) ==
    /\ PipelineInit(t)
    /\ IntervalCounterInit(FpsSamples, 0)

Init == InitWith(TRUE)

-----------------------------------------------------------------------------
(* The worker thread of stage i: PipelineWorker._run.                      *)

\* with self.sem: self.flag = True
SetFlag(i) ==
    /\ pc[i] = "run"
    /\ flag' = [flag EXCEPT ![i] = TRUE]
    /\ pc' = [pc EXCEPT ![i] = "top"]
    /\ UNCHANGED <<wiring, meter, stopMark, queue, numDrops, src, dat, pipeline, opc, oidx,
                   nextFrame, pushed, got, evicted, failed>>

\* Variant: the flag is not looked at, the loop goes on.
CheckFlagNever(i) ==
    /\ pc[i] = "top"
    /\ pc' = [pc EXCEPT ![i] = "getData"]
    /\ UNCHANGED <<wiring, meter, stopMark, queue, flag, numDrops, src, dat,
                   pipeline, opc, oidx, nextFrame, pushed, got, evicted,
                   failed>>

\* with self.sem: if self.flag == False: break
CheckFlag(i) ==
    /\ pc[i] = "top"
    /\ pc' = [pc EXCEPT ![i] = IF flag[i] = FALSE THEN "done" ELSE "getData"]
    /\ UNCHANGED <<wiring, meter, stopMark, queue, flag, numDrops, src, dat, pipeline, opc,
                   oidx, nextFrame, pushed, got, evicted, failed>>

\* ContinuousVideoCapture.getData: src = self.capture.read(), which
\* delivers (True, frame) or (False, None).
Capture(i, ok) ==
    /\ pc[i] = "getData"
    /\ source[i] = None
    /\ nextFrame <= MaxItems
    /\ src' = [src EXCEPT ![i] = IF ok THEN <<TRUE, nextFrame>>
                                       ELSE <<FALSE, None>>]
    /\ nextFrame' = IF ok THEN Bump(nextFrame) ELSE nextFrame
    /\ pc' = [pc EXCEPT ![i] = "process"]
    /\ UNCHANGED <<wiring, meter, stopMark, queue, flag, numDrops, dat, pipeline, opc, oidx,
                   pushed, got, evicted, failed>>

\* Variant: get() hands out the newest queued item instead of the oldest.
QueueGetNewest(q) == q[Len(q)]

\* PipelineWorker.get on stage s: self.queue.get(block=True). Enabled only
\* when an item is queued; yields the queue without the item returned.
QueueGet(q) == Tail(q)
QueueGetItem(q) == Head(q)

\* Variant: a get() that gives up with None once the upstream thread has
\* exited and left nothing queued, instead of waiting.
GetDataPolling(i) ==
    /\ pc[i] = "getData"
    /\ source[i] # None
    /\ LET s == source[i] IN
       IF queue[s] # <<>>
          THEN /\ src' = [src EXCEPT ![i] = <<Head(queue[s])>>]
               /\ queue' = [queue EXCEPT ![s] = Tail(queue[s])]
               /\ got' = [got EXCEPT ![s] = Record(got[s], Head(queue[s]))]
          ELSE /\ pc[s] = "done"
               /\ src' = [src EXCEPT ![i] = <<None>>]
               /\ UNCHANGED <<queue, got>>
    /\ pc' = [pc EXCEPT ![i] = "process"]
    /\ UNCHANGED <<wiring, meter, stopMark, flag, numDrops, dat, pipeline, opc, oidx,
                   nextFrame, pushed, evicted, failed>>

\* PipelineWorker.getData: src = self.source.get(), which blocks while the
\* upstream queue is empty.
GetData(i) ==
    /\ pc[i] = "getData"
    /\ source[i] # None
    /\ LET s == source[i] IN
       /\ queue[s] # <<>>
       /\ src' = [src EXCEPT ![i] = <<QueueGetItem(queue[s])>>]
       /\ queue' = [queue EXCEPT ![s] = QueueGet(queue[s])]
       /\ got' = [got EXCEPT ![s] = Record(got[s], QueueGetItem(queue[s]))]
    /\ pc' = [pc EXCEPT ![i] = "process"]
    /\ UNCHANGED <<wiring, meter, stopMark, flag, numDrops, dat, pipeline, opc, oidx,
                   nextFrame, pushed, evicted, failed>>

\* Variant: process hands its input on untransformed.
ProcessDatRaw(i) == src[i][Len(src[i])]

\* Variant: the ret of process is not looked at.
ProcessRetIgnored(i, ok) == TRUE

\* ret, dat = self.process(src); if ret == False: break.  The head's process
\* returns its srcData, the (ret, frame) pair of the camera; every other
\* stage's process returns (ok, transformed item).
ProcessRet(i, ok) == IF source[i] = None THEN src[i][1] ELSE ok
ProcessDat(i) == IF source[i] = None THEN src[i][2]
                 ELSE Transform(i, src[i][1])

Process(i, ok) ==
    /\ pc[i] = "process"
    /\ source[i] = None => ok = src[i][1]
    /\ IF ProcessRet(i, ok) = FALSE
          THEN /\ pc' = [pc EXCEPT ![i] = "done"]
               /\ dat' = dat
               /\ failed' = [failed EXCEPT ![i] = TRUE]
          ELSE /\ pc' = [pc EXCEPT ![i] = "full"]
               /\ dat' = [dat EXCEPT ![i] = ProcessDat(i)]
               /\ failed' = failed
    /\ src' = [src EXCEPT ![i] = <<>>]
    /\ UNCHANGED <<wiring, meter, stopMark, queue, flag, numDrops, pipeline, opc, oidx,
                   nextFrame, pushed, got, evicted>>

\* if self.queue.full():
CheckFull(i) ==
    /\ pc[i] = "full"
    /\ pc' = [pc EXCEPT ![i] = IF QueueFull(queue[i], maxsize[i])
                                  THEN "drop" ELSE "put"]
    /\ UNCHANGED <<wiring, meter, stopMark, queue, flag, numDrops, src, dat, pipeline, opc,
                   oidx, nextFrame, pushed, got, evicted, failed>>

\* self.queue.get(block=True) of the worker on its own queue: blocks while
\* the queue is empty.
DropGet(i) ==
    /\ pc[i] = "drop"
    /\ queue[i] # <<>>
    /\ queue' = [queue EXCEPT ![i] = QueueGet(queue[i])]
    /\ evicted' = [evicted EXCEPT
                      ![i] = Record(evicted[i], QueueGetItem(queue[i]))]
    /\ pc' = [pc EXCEPT ![i] = "inc"]
    /\ UNCHANGED <<wiring, meter, stopMark, flag, numDrops, src, dat, pipeline, opc, oidx,
                   nextFrame, pushed, got, failed>>

\* Variant: the discard is counted twice.
DropCountTwice(n) == Bump(Bump(n))

\* Variant: the discard is not counted.
DropCountNone(n) == n

\* self.numDrops += 1
DropCount(n) == Bump(n)

DropInc(i) ==
    /\ pc[i] = "inc"
    /\ numDrops' = [numDrops EXCEPT ![i] = DropCount(numDrops[i])]
    /\ pc' = [pc EXCEPT ![i] = "put"]
    /\ UNCHANGED <<wiring, meter, stopMark, queue, flag, src, dat, pipeline, opc, oidx,
                   nextFrame, pushed, got, evicted, failed>>

\* Variant: a queue that inserts at the head (queue.LifoQueue).
QueuePutFront(q, x) == <<x>> \o q

\* queue.Queue.put(item): appends at the tail.
QueuePut(q, x) == Append(q, x)

\* self.queue.put(dat): a blocking put, which waits while the queue is full.
Put(i) ==
    /\ pc[i] = "put"
    /\ ~QueueFull(queue[i], maxsize[i])
    /\ queue' = [queue EXCEPT ![i] = QueuePut(queue[i], dat[i])]
    /\ pushed' = [pushed EXCEPT ![i] = Record(pushed[i], dat[i])]
    /\ dat' = [dat EXCEPT ![i] = None]
    /\ pc' = [pc EXCEPT ![i] = "top"]
    /\ UNCHANGED <<wiring, meter, stopMark, flag, numDrops, src, pipeline, opc, oidx,
                   nextFrame, got, evicted, failed>>

-----------------------------------------------------------------------------
(* The main thread: ContinuousVideoProcess.execute.                        *)

\* Variant: getSources puts each worker in front of the list.
RECURSIVE GetSourcesPrepend(_, _)
GetSourcesPrepend(worker, srcList) ==
    IF worker = None THEN srcList
    ELSE GetSourcesPrepend(destination[worker], <<worker>> \o srcList)

\* ContinuousVideoProcess.getSources(worker, srcList): the workers reached
\* from worker through the destination references, appended to srcList.
RECURSIVE GetSources(_, _)
GetSources(worker, srcList) ==
    IF worker = None THEN srcList
    ELSE GetSources(destination[worker], Append(srcList, worker))

\* Variant: the list is kept in the order getSources found it.
ReversedNot(l) == l

\* pipeline[::-1]
Reversed(l) == [k \in 1..Len(l) |-> l[Len(l) + 1 - k]]

\* Variant: getOutput pulls from the last worker of the list.
OutputWorkerLast == pipeline[Len(pipeline)]

\* The worker getOutput pulls from: self.pipeline[0].
OutputWorker == pipeline[1]

\* scanPipeline, called first by startPipeline; self.capture is stage 1.
ScanPipeline ==
    /\ opc = "scan"
    /\ pipeline' = Reversed(GetSources(1, <<>>))
    /\ opc' = "start"
    /\ oidx' = 1
    /\ UNCHANGED <<wiring, meter, stopMark, queue, flag, numDrops, pc, src, dat, nextFrame,
                   pushed, got, evicted, failed>>

\* One round of startPipeline's loop: worker.start(), which creates the
\* thread and starts it at the first statement of _run.
Start ==
    /\ opc = "start"
    /\ pc' = [pc EXCEPT ![pipeline[oidx]] = "run"]
    /\ IF oidx < Len(pipeline)
          THEN oidx' = oidx + 1 /\ opc' = opc
          ELSE oidx' = 0 /\ opc' = "get"
    /\ UNCHANGED <<wiring, meter, stopMark, queue, flag, numDrops, src, dat, pipeline,
                   nextFrame, pushed, got, evicted, failed>>

\* frame = self.getOutput(): (self.pipeline[0]).get(), which blocks while
\* the queue of that worker is empty.
GetOutput ==
    /\ opc = "get"
    /\ LET w == OutputWorker IN
       /\ queue[w] # <<>>
       /\ queue' = [queue EXCEPT ![w] = QueueGet(queue[w])]
       /\ got' = [got EXCEPT ![w] = Record(got[w], QueueGetItem(queue[w]))]
    /\ opc' = "key"
    /\ UNCHANGED <<wiring, meter, stopMark, flag, numDrops, pc, src, dat, pipeline, oidx,
                   nextFrame, pushed, evicted, failed>>

\* key = cv2.waitKey(1) is not ESC: the loop goes round.
KeyOther ==
    /\ opc = "key"
    /\ opc' = "get"
    /\ UNCHANGED <<wiring, meter, stopMark, queue, flag, numDrops, pc, src, dat, pipeline,
                   oidx, nextFrame, pushed, got, evicted, failed>>

\* key == 27: break, and stopPipeline begins.
KeyEsc ==
    /\ opc = "key"
    /\ opc' = "stop"
    /\ oidx' = 1
    /\ UNCHANGED <<wiring, meter, stopMark, queue, flag, numDrops, pc, src, dat, pipeline,
                   nextFrame, pushed, got, evicted, failed>>

\* Stage i's thread is inside the while loop of _run.
InLoop(i) == pc[i] \notin {"none", "run", "done"}

\* Variant: stop() also puts None on the upstream queue, which wakes a
\* thread waiting in get().
StopFlagWake ==
    /\ opc = "stop"
    /\ flag' = [flag EXCEPT ![pipeline[oidx]] = FALSE]
    /\ queue' = IF source[pipeline[oidx]] = None THEN queue
                ELSE [queue EXCEPT ![source[pipeline[oidx]]] = Append(@, None)]
    /\ opc' = "join"
    /\ stopMark' = [stopMark EXCEPT ![pipeline[oidx]] =
                       IF InLoop(pipeline[oidx])
                          THEN Len(pushed[pipeline[oidx]])
                          ELSE @]
    /\ UNCHANGED <<wiring, meter, numDrops, pc, src, dat, pipeline, oidx,
                   nextFrame, pushed, got, evicted, failed>>

\* worker.stop(), first half: with self.sem: self.flag = False
StopFlag ==
    /\ opc = "stop"
    /\ flag' = [flag EXCEPT ![pipeline[oidx]] = FALSE]
    /\ opc' = "join"
    /\ stopMark' = [stopMark EXCEPT ![pipeline[oidx]] =
                       IF InLoop(pipeline[oidx])
                          THEN Len(pushed[pipeline[oidx]])
                          ELSE @]
    /\ UNCHANGED <<wiring, meter, queue, numDrops, pc, src, dat, pipeline, oidx,
                   nextFrame, pushed, got, evicted, failed>>

\* Variant: stop() returns without joining the thread.
ThreadNotJoined(i) == TRUE

\* threading.Thread.join returns once the thread has left _run.
ThreadExited(i) == pc[i] = "done"

\* worker.stop(), second half: self.thread.join(); then the next round of
\* stopPipeline's loop, or the end of execute.
Join ==
    /\ opc = "join"
    /\ ThreadExited(pipeline[oidx])
    /\ oidx' = oidx + 1
    /\ opc' = IF oidx < Len(pipeline) THEN "stop" ELSE "finished"
    /\ UNCHANGED <<wiring, meter, stopMark, queue, flag, numDrops, pc, src, dat, pipeline,
                   nextFrame, pushed, got, evicted, failed>>

\* A client of the orchestrator that calls stopPipeline as soon as
\* startPipeline has returned, without waiting for a frame.
StopNow ==
    /\ opc = "get"
    /\ opc' = "stop"
    /\ oidx' = 1
    /\ UNCHANGED <<wiring, meter, stopMark, queue, flag, numDrops, pc, src,
                   dat, pipeline, nextFrame, pushed, got, evicted, failed>>

-----------------------------------------------------------------------------
(* IntervalCounter.                                                        *)

\* The state of the stages and of the main thread.
engine == <<wiring, queue, flag, numDrops, pc, src, dat, pipeline, opc, oidx,
            nextFrame, pushed, got, evicted, failed, stopMark>>

\* np.append(samples, elapsedTime)
NpAppend(s, x) == Append(s, x)

\* Variant: the newest sample is deleted, np.delete(samples, -1).
NpDeleteLast(s) == SubSeq(s, 1, Len(s) - 1)

\* np.delete(samples, 0)
NpDeleteFirst(s) == Tail(s)

RECURSIVE Sum(_)
Sum(s) == IF s = <<>> THEN 0 ELSE Head(s) + Sum(Tail(s))

\* np.average(samples), kept exact as <<sum, number of samples>>.
NpAverage(s) == <<Sum(s), Len(s)>>

\* IntervalCounter.measure() when time.time() reads curTime.
Measure(curTime) ==
    /\ count < MaxCalls
    /\ LET elapsedTime == curTime - lastTime IN
       /\ lastTime' = curTime
       /\ samples' = NpDeleteFirst(NpAppend(samples, elapsedTime))
       /\ intervals' = Append(intervals, elapsedTime)
    /\ count' = count + 1
    /\ result' = IF count' > numSamples THEN NpAverage(samples')
                 ELSE NoAverage
    /\ UNCHANGED <<engine, numSamples>>

-----------------------------------------------------------------------------
(* Specifications.                                                         *)

\* The steps of stage i's thread other than the camera read, when every
\* transform succeeds.
Relay(i) ==
    \/ SetFlag(i)
    \/ CheckFlag(i)
    \/ GetData(i)
    \/ Process(i, TRUE)
    \/ CheckFull(i)
    \/ DropGet(i)
    \/ DropInc(i)
    \/ Put(i)

\* The steps of stage i's thread when the camera delivers as well.
Worker(i) == Capture(i, TRUE) \/ Relay(i)

\* The steps of the main thread up to the ESC key.
Consumer == ScanPipeline \/ Start \/ GetOutput \/ KeyOther

\* The steps of the main thread from the ESC key on.
Stopper == KeyEsc \/ StopFlag \/ Join

Next ==
    \/ \E i \in Stages : SetFlag(i)
    \/ \E i \in Stages : CheckFlag(i)
    \/ \E i \in Stages, ok \in BOOLEAN : Capture(i, ok)
    \/ \E i \in Stages : GetData(i)
    \/ \E i \in Stages, ok \in BOOLEAN : Process(i, ok)
    \/ \E i \in Stages : CheckFull(i)
    \/ \E i \in Stages : DropGet(i)
    \/ \E i \in Stages : DropInc(i)
    \/ \E i \in Stages : Put(i)
    \/ ScanPipeline
    \/ Start
    \/ GetOutput
    \/ KeyOther
    \/ KeyEsc
    \/ StopFlag
    \/ Join

\* The bounded stream: MaxItems numbered frames; reads and transforms may
\* fail.
Spec == Init /\ [][Next]_vars

\* The endless stream: the camera always delivers and every transform
\* succeeds.  The user may press ESC after any frame.  Scheduling is fair in
\* the strong sense: a thread that can take a step again and again takes
\* one, so a thread waiting in a blocking get() is served if items keep
\* arriving, even when each of them is soon evicted.
EndlessInit == InitWith(FALSE)

NextOK ==
    \/ \E i \in Stages : SetFlag(i)
    \/ \E i \in Stages : CheckFlag(i)
    \/ \E i \in Stages : Capture(i, TRUE)
    \/ \E i \in Stages : GetData(i)
    \/ \E i \in Stages : Process(i, TRUE)
    \/ \E i \in Stages : CheckFull(i)
    \/ \E i \in Stages : DropGet(i)
    \/ \E i \in Stages : DropInc(i)
    \/ \E i \in Stages : Put(i)
    \/ ScanPipeline
    \/ Start
    \/ GetOutput
    \/ KeyOther
    \/ KeyEsc
    \/ StopFlag
    \/ Join

FairSpec ==
    /\ EndlessInit
    /\ [][NextOK]_vars
    /\ \A i \in 1..MaxStages : SF_vars(i \in Stages /\ Worker(i))
    /\ SF_vars(Consumer \/ Stopper)

\* The endless stream when ESC is never pressed.
NextRunning ==
    \/ \E i \in Stages : SetFlag(i)
    \/ \E i \in Stages : CheckFlag(i)
    \/ \E i \in Stages : Capture(i, TRUE)
    \/ \E i \in Stages : GetData(i)
    \/ \E i \in Stages : Process(i, TRUE)
    \/ \E i \in Stages : CheckFull(i)
    \/ \E i \in Stages : DropGet(i)
    \/ \E i \in Stages : DropInc(i)
    \/ \E i \in Stages : Put(i)
    \/ ScanPipeline
    \/ Start
    \/ GetOutput
    \/ KeyOther

FairRunSpec ==
    /\ EndlessInit
    /\ [][NextRunning]_vars
    /\ \A i \in 1..MaxStages : SF_vars(i \in Stages /\ Worker(i))
    /\ SF_vars(Consumer)

\* The bounded stream when every read and every transform succeeds and ESC
\* is never pressed, under the same fair scheduling of the threads; the
\* camera, however, may at any time deliver no further frame (its read then
\* waits).
FairFeedSpec ==
    /\ Init
    /\ [][NextRunning]_vars
    /\ \A i \in 1..MaxStages : SF_vars(i \in Stages /\ Relay(i))
    /\ SF_vars(Consumer)

\* The bounded stream under any client of startPipeline, getOutput and
\* stopPipeline: stopPipeline may follow startPipeline at once.
ApiNext ==
    \/ \E i \in Stages : SetFlag(i)
    \/ \E i \in Stages : CheckFlag(i)
    \/ \E i \in Stages, ok \in BOOLEAN : Capture(i, ok)
    \/ \E i \in Stages : GetData(i)
    \/ \E i \in Stages, ok \in BOOLEAN : Process(i, ok)
    \/ \E i \in Stages : CheckFull(i)
    \/ \E i \in Stages : DropGet(i)
    \/ \E i \in Stages : DropInc(i)
    \/ \E i \in Stages : Put(i)
    \/ ScanPipeline
    \/ Start
    \/ GetOutput
    \/ KeyOther
    \/ KeyEsc
    \/ StopNow
    \/ StopFlag
    \/ Join

ApiSpec == Init /\ [][ApiNext]_vars

\* An IntervalCounter on its own: created with any numSamples at any clock
\* reading, and measure called again and again, the clock having advanced
\* by any amount between two readings.
MeterInit ==
    /\ PipelineInit(TRUE)
    /\ \E K \in 1..MaxSamples, t \in 0..MaxDelta : IntervalCounterInit(K, t)

MeterNext ==
    \E curTime \in (lastTime + 1)..(lastTime + MaxDelta) : Measure(curTime)

MeterSpec == MeterInit /\ [][MeterNext]_vars

-----------------------------------------------------------------------------
(* Properties.                                                             *)

\* Stage i's thread waits in a blocking call on its own output queue: in
\* self.queue.get(block=True) with nothing queued, or in self.queue.put
\* with the queue full.
BlockedOnOwnQueue(i) ==
    \/ pc[i] = "drop" /\ queue[i] = <<>>
    \/ pc[i] = "put" /\ QueueFull(queue[i], maxsize[i])

\* Stage i's thread waits in getData for its upstream.
BlockedInGetData(i) ==
    pc[i] = "getData" /\ source[i] # None /\ queue[source[i]] = <<>>

\* C1: the push step of a worker (check full, discard oldest, put) never
\* blocks: no worker thread ever waits on its own output queue, whatever
\* the capacity and however its consumer's get() calls interleave.
C1_PushNeverBlocks == \A i \in Stages : ~BlockedOnOwnQueue(i)

\* C2: a push discards an item (and then counts one drop) only when the
\* queue holds exactly N items at the moment of the discard; if the consumer
\* has made room since the full() test, nothing is discarded and numDrops
\* keeps its value.
C2_DiscardOnlyWhenFull ==
    [][\A i \in Stages :
          /\ evicted'[i] # evicted[i] => Len(queue[i]) = maxsize[i]
          /\ numDrops'[i] # numDrops[i]
                => /\ numDrops'[i] = numDrops[i] + 1
                   /\ numDrops'[i] = Len(evicted[i])]_vars

\* C3: once stopPipeline has begun on a chain in which every stage was
\* started, the camera always delivers and every transform succeeds, it
\* completes: every stop() returns and every worker thread has exited.
C3_StopTerminates ==
    (opc = "stop") ~> (opc = "finished" /\ \A i \in Stages : pc[i] = "done")

\* C4: while the chain runs, every stage pushes an output again and again,
\* and every get() that waits (a stage's on its upstream, the main thread's
\* on the terminal stage) is eventually served.
C4_NeverStalls ==
    /\ \A i \in 1..MaxStages :
          <>[](i \notin Stages) \/ []<><<i \in Stages /\ Put(i)>>_vars
    /\ \A i \in 1..MaxStages :
          (i \in Stages /\ pc[i] = "getData")
              ~> (i \in Stages /\ pc[i] = "process")
    /\ (opc = "get") ~> (opc = "key")

\* s is t with some of its elements left out, the rest in t's order.
RECURSIVE IsSubseq(_, _)
IsSubseq(s, t) ==
    IF s = <<>> THEN TRUE
    ELSE IF t = <<>> THEN FALSE
    ELSE IF Head(s) = Head(t) THEN IsSubseq(Tail(s), Tail(t))
    ELSE IsSubseq(s, Tail(t))

Range(s) == {s[k] : k \in DOMAIN s}
NoDuplicates(s) == \A k, l \in DOMAIN s : s[k] = s[l] => k = l
LastN(s, n) == SubSeq(s, Len(s) - n + 1, Len(s))

\* The frames the camera has delivered so far, and what the main thread
\* has received from the terminal stage.
Fed == nextFrame - 1
Delivered == IF pipeline = <<>> THEN <<>> ELSE got[OutputWorker]

\* The composed transforms applied to the frames delivered so far.
Expected == [n \in 1..Fed |-> Compose(nStages, n)]

\* C5: what the main thread receives from the terminal stage is the
\* composed transforms of the camera's frames with some left out: nothing
\* is delivered twice and no two items are delivered in swapped order.
C5_OrderPreserved ==
    /\ IsSubseq(Delivered, Expected)
    /\ NoDuplicates(Delivered)

C5_Witness ==
    /\ nStages >= 2
    /\ Delivered = <<Compose(nStages, 1), Compose(nStages, 3)>>

\* Stage i neither holds an item in its thread nor in its queue.
Idle(i) ==
    /\ queue[i] = <<>>
    /\ pc[i] \notin {"process", "full", "drop", "inc", "put"}

\* C6: when every capacity is at least the number M of frames fed and no
\* transform has failed, nothing is dropped, the outputs are the composed
\* transforms of the frames in order, and once no item is on its way any
\* more exactly M outputs have been delivered; and unless the camera feeds
\* a further frame, all M outputs are eventually delivered.
C6_NoDrop ==
    ((\A i \in Stages : qsize[i] >= Fed) /\ (\A i \in Stages : ~failed[i]))
        => /\ \A i \in Stages : numDrops[i] = 0 /\ evicted[i] = <<>>
           /\ Delivered = SubSeq(Expected, 1, Len(Delivered))
           /\ (\A i \in Stages : Idle(i)) => Delivered = Expected

C6_NoDropDelivery ==
    /\ []C6_NoDrop
    /\ \A m \in 1..MaxCap :
          (Fed = m /\ \A i \in Stages : qsize[i] >= m)
              ~> (Fed > m \/ Delivered = Expected)

C6_Witness ==
    /\ nStages >= 2
    /\ Fed = 2
    /\ \A i \in Stages : qsize[i] >= Fed /\ ~failed[i] /\ Idle(i)
    /\ Len(Delivered) = 2

\* C7: after n pushes into a queue of capacity C < n with no get() so far,
\* the queue holds exactly the last C pushed items in insertion order and
\* numDrops is n - C (stated between pushes: not while the worker is
\* between its discard and its put).
C7_LastCKept ==
    \A i \in Stages :
        (got[i] = <<>> /\ pc[i] \notin {"inc", "put"}
                       /\ Len(pushed[i]) > qsize[i])
            => /\ queue[i] = LastN(pushed[i], qsize[i])
               /\ numDrops[i] = Len(pushed[i]) - qsize[i]

C7_Witness ==
    \E i \in Stages :
        /\ got[i] = <<>> /\ pc[i] \notin {"inc", "put"}
        /\ qsize[i] = 1
        /\ Len(pushed[i]) = 3
        /\ numDrops[i] = 2

\* C8: get() on a stage returns the pushed items in push order, leaving out
\* only evicted ones: what has been pushed, without what has been evicted,
\* is what get() has returned followed by what is still queued; so get()
\* returns nothing evicted and nothing twice.
C8_Fifo ==
    \A i \in Stages :
        /\ SelectSeq(pushed[i], LAMBDA x : x \notin Range(evicted[i]))
              = got[i] \o queue[i]
        /\ IsSubseq(got[i], pushed[i])
        /\ Range(got[i]) \cap Range(evicted[i]) = {}
        /\ NoDuplicates(got[i])

C8_Witness ==
    \E i \in Stages : Len(got[i]) >= 2 /\ Len(evicted[i]) >= 1

\* C9: no output queue ever holds more items than the capacity its stage
\* was constructed with.
C9_Occupancy == \A i \in Stages : Len(queue[i]) <= qsize[i]

C9_Witness ==
    \E i \in Stages : Len(queue[i]) = qsize[i] /\ numDrops[i] > 0

\* stop() on stage i has returned: stopPipeline's loop is past it.
StopReturned(i) ==
    /\ opc \in {"stop", "join", "finished"}
    /\ \E k \in 1..(oidx - 1) : pipeline[k] = i

\* C10: after stop() has returned on a stage, nothing is added to that
\* stage's queue and its numDrops keeps its value, whatever the other
\* threads do.
C10_SilentAfterStop ==
    [][\A i \in Stages :
          StopReturned(i)
              => /\ pushed'[i] = pushed[i]
                 /\ Len(queue'[i]) <= Len(queue[i])
                 /\ numDrops'[i] = numDrops[i]]_vars

C10_Witness ==
    /\ nStages >= 2
    /\ StopReturned(2)
    /\ ~StopReturned(1)
    /\ pc[1] = "put"
    /\ pushed[2] # <<>>

\* Stage i's thread has been created, and it has left _run.
Started(i) == pc[i] # "none"
Exited(i) == pc[i] = "done"

\* C11: when the process of a stage returns failure (for the head: the
\* camera's ret, handed through), that iteration pushes nothing: the stage's
\* queue, numDrops and flag keep their values, its thread leaves _run for
\* good, and the thread and flag of every other stage are untouched.
C11_FailureStopsStage ==
    [][\A i \in Stages :
          /\ (failed'[i] /\ ~failed[i]) \/
             (pc[i] = "process" /\ pc'[i] # pc[i]
                                /\ source[i] = None /\ src[i][1] = FALSE)
                => /\ Exited(i)' /\ failed'[i]
                   /\ queue'[i] = queue[i] /\ pushed'[i] = pushed[i]
                   /\ numDrops'[i] = numDrops[i] /\ flag'[i] = flag[i]
                   /\ \A j \in Stages \ {i} :
                         pc'[j] = pc[j] /\ flag'[j] = flag[j]
          /\ failed[i]
                => /\ Exited(i)' /\ pushed'[i] = pushed[i]
                   /\ numDrops'[i] = numDrops[i]]_vars

C11_Witness ==
    \E i, j \in Stages :
        /\ i # j
        /\ failed[i] /\ Exited(i) /\ queue[i] # <<>>
        /\ flag[j] /\ Started(j) /\ ~Exited(j)

\* The stages after stage s in the chain of destination references.
RECURSIVE DownstreamOf(_)
DownstreamOf(s) ==
    IF destination[s] = None THEN {}
    ELSE {destination[s]} \cup DownstreamOf(destination[s])

\* Stage j's thread holds an item between its getData and its put.
Holds(j) == pc[j] \in {"process", "full", "drop", "inc", "put"}

\* The items on their way from stage s to the main thread: those in the
\* queue of s and those queued or held in the stages after s.
RECURSIVE InFlightIn(_)
InFlightIn(S) ==
    IF S = {} THEN 0
    ELSE LET j == CHOOSE x \in S : TRUE
         IN  Len(queue[j]) + (IF Holds(j) THEN 1 ELSE 0)
                 + InFlightIn(S \ {j})

InFlightAfter(s) == Len(queue[s]) + InFlightIn(DownstreamOf(s))

\* C12: the failure of stage s is not handed downstream.  Once s has exited
\* on failure: no later stage's thread exits unless stop() cleared its flag
\* or its own process failed, and no later stage's flag is cleared except
\* by stop(); once the queue of s is drained, it stays empty and the next
\* stage, waiting in get() on it, waits there for ever; and the main thread
\* receives no more than the items that were on their way, so with none
\* left its get() on the terminal stage never returns again.
C12_FailureNotPropagated ==
    [][\A s \in Stages :
          failed[s]
              => /\ \A j \in DownstreamOf(s) :
                       /\ (Exited(j)' /\ ~Exited(j))
                              => (flag[j] = FALSE \/ failed'[j])
                       /\ (flag[j] /\ ~flag'[j])
                              => (opc = "stop" /\ pipeline[oidx] = j)
                 /\ queue[s] = <<>>
                       => /\ queue'[s] = <<>>
                          /\ \A j \in Stages :
                                (source[j] = s /\ pc[j] = "getData")
                                    => pc'[j] = "getData"
                 /\ Len(Delivered') + InFlightAfter(s)'
                       <= Len(Delivered) + InFlightAfter(s)
                 /\ InFlightAfter(s) = 0 => Delivered' = Delivered]_vars

C12_Witness ==
    /\ nStages = 2
    /\ failed[1] /\ queue[1] = <<>>
    /\ pc[2] = "getData" /\ flag[2] /\ queue[2] = <<>>
    /\ opc = "get"
    /\ Len(Delivered) >= 1

\* stop() has been called on stage i: its flag has been cleared by stop().
StopCalled(i) ==
    \/ opc = "join" /\ pipeline[oidx] = i
    \/ StopReturned(i)

\* C13: shutdown is strictly sink-to-source.  Whenever stop() has been called
\* on the upstream of a stage, stop() on the stage itself has been called
\* and has returned; the first stop() is on the terminal stage, and when
\* stop() is called on the source stage every other stage's has returned.
C13_StopSinkToSource ==
    \A i \in Stages :
        /\ (source[i] # None /\ StopCalled(source[i])) => StopReturned(i)
        /\ StopCalled(i)
              => /\ \A j \in Stages : destination[j] = None => StopCalled(j)
                 /\ source[i] = None
                       => \A j \in Stages \ {i} : StopReturned(j)

C13_Witness ==
    /\ nStages = 2
    /\ opc = "join" /\ pipeline[oidx] = 1
    /\ StopReturned(2)

\* C14 as stated: whenever a stage with an upstream has been started, its
\* upstream has been started.  startPipeline walks the reversed list, so
\* this does not hold.
C14_StartUpstreamFirst ==
    \A i \in Stages :
        (source[i] # None /\ Started(i)) => Started(source[i])

\* C14, amended: stages are started sink-first.  Whenever the upstream of a
\* stage has been started, the stage itself has been started, so the
\* terminal stage is started first and the source stage last.
C14_StartSinkFirst ==
    \A i \in Stages :
        /\ (source[i] # None /\ Started(source[i])) => Started(i)
        /\ Started(i)
              => /\ \A j \in Stages : destination[j] = None => Started(j)
                 /\ source[i] = None => \A j \in Stages : Started(j)

C14_Witness ==
    /\ nStages = 2
    /\ opc = "start"
    /\ Started(2) /\ ~Started(1)

\* C15: the traversal of getSources from the capture stage lists every stage
\* of the chain exactly once, from the source to the sink, following the
\* source references; scanPipeline keeps that list reversed, and getOutput
\* takes its item from the stage with no destination and from no other.
Discovered == GetSources(1, <<>>)

C15_ListOrdered ==
    /\ Len(Discovered) = nStages
    /\ \A s \in Stages :
          Cardinality({k \in 1..Len(Discovered) : Discovered[k] = s}) = 1
    /\ source[Discovered[1]] = None
    /\ \A k \in 2..Len(Discovered) : source[Discovered[k]] = Discovered[k - 1]
    /\ destination[Discovered[Len(Discovered)]] = None
    /\ pipeline # <<>>
          => /\ pipeline = Reversed(Discovered)
             /\ destination[OutputWorker] = None

C15_Discovery ==
    [][/\ C15_ListOrdered /\ C15_ListOrdered'
       /\ (opc = "get" /\ opc' = "key")
             => \E w \in Stages :
                   /\ destination[w] = None
                   /\ queue[w] # <<>>
                   /\ queue' = [queue EXCEPT ![w] = Tail(queue[w])]]_vars

C15_Witness ==
    /\ nStages = 2
    /\ opc = "key"
    /\ got[2] # <<>>
    /\ pipeline = <<2, 1>>

\* Stage i waits in get() on an upstream whose thread has exited and whose
\* queue is empty.
StuckInGet(i) ==
    /\ source[i] # None
    /\ Exited(source[i])
    /\ queue[source[i]] = <<>>
    /\ pc[i] = "getData"

\* C18: a stage waiting in get() on an empty queue whose thread has exited
\* waits there for ever, and a stop() on that stage stays in its join.
C18_StopHangs ==
    [][\A i \in Stages :
          StuckInGet(i)
              => /\ StuckInGet(i)'
                 /\ (opc = "join" /\ pipeline[oidx] = i)
                       => (opc' = "join" /\ oidx' = oidx
                                         /\ ~StopReturned(i)')]_vars

C18_Witness ==
    \E i \in Stages :
        /\ StuckInGet(i)
        /\ opc = "join" /\ pipeline[oidx] = i
        /\ ~flag[i]

\* C16 as stated: measure returns None on each of the first numSamples - 1
\* calls and a mean on call numSamples and on every later call.  The code
\* compares count > numSamples after incrementing, so call numSamples
\* returns None as well.
C16_ColdStart ==
    count >= 1 => (result = NoAverage <=> count < numSamples)

\* C17: the window always holds numSamples entries, the newest elapsed times
\* behind what is left of the initial zeros, oldest first; every mean
\* returned is the mean of the last numSamples elapsed times, each of them
\* the time between two calls of measure; and when that time is the same D
\* between all calls, every mean returned is D.
C17_WindowMean ==
    /\ Len(samples) = numSamples
    /\ samples = LastN(NpZeros(numSamples) \o intervals, numSamples)
    /\ result # NoAverage
          => /\ Len(intervals) > numSamples
             /\ result = <<Sum(LastN(intervals, numSamples)), numSamples>>
             /\ \A D \in 1..MaxDelta :
                   (\A k \in 2..Len(intervals) : intervals[k] = D)
                       => result[1] = D * result[2]

C17_Witness ==
    /\ numSamples >= 2
    /\ count > numSamples + 1
    /\ result # NoAverage
    /\ samples[1] # samples[2]

\* C19 as stated: a stop() called after start() has returned is not lost.
\* Once stop() has cleared the flag of a stage the flag stays false, and the
\* stage's thread leaves its loop at its next check of the flag.  start()
\* only creates the thread and _run sets the flag, so a stop() that comes
\* before the thread's first statement is overwritten.
C19_StopNotLost ==
    [][\A i \in Stages :
          StopCalled(i)
              => /\ flag[i] = FALSE => flag'[i] = FALSE
                 /\ (pc[i] = "top" /\ pc'[i] # "top") => Exited(i)']_vars

\* C20: once stop() has cleared the flag of a stage whose thread is inside
\* its loop, the stage puts at most one further item on its queue, the one
\* of the iteration in progress, and having put it the thread is at the
\* check of the flag or has exited; it never begins another iteration.
C20_AtMostOneMore ==
    \A i \in Stages :
        stopMark[i] >= 0
            => /\ flag[i] = FALSE
               /\ Len(pushed[i]) <= stopMark[i] + 1
               /\ Len(pushed[i]) = stopMark[i] + 1 => pc[i] \in {"top", "done"}

C20_Witness ==
    \E i \in Stages :
        /\ stopMark[i] >= 1
        /\ Len(pushed[i]) = stopMark[i] + 1
        /\ Exited(i)

\* Stage i's thread is not between the full() test and the put of _run: it
\* is at the top of its loop, fetching or transforming, not started, or out.
BetweenPushes(i) == pc[i] \notin {"full", "drop", "inc", "put"}

\* The items of sequence s, each with the number of times it occurs.
Occurrences(s) == [x \in Range(s) |-> Cardinality({k \in DOMAIN s : s[k] = x})]

\* C21: the account of every stage balances whenever its thread is not in
\* the middle of a push, at the top of its loop or exited in particular:
\* the items put equal in number the items its consumer got, plus numDrops,
\* plus the items queued; each item put is, exactly once, queued, got or
\* removed by the worker, and numDrops counts the items removed by the
\* worker.  numDrops never decreases.
C21_Balance ==
    \A i \in Stages :
        BetweenPushes(i)
            => /\ Len(pushed[i]) = Len(got[i]) + numDrops[i] + Len(queue[i])
               /\ numDrops[i] = Len(evicted[i])
               /\ Occurrences(pushed[i])
                     = Occurrences(got[i] \o evicted[i] \o queue[i])

C21_Conservation ==
    [][/\ C21_Balance /\ C21_Balance'
       /\ \A i \in Stages : numDrops'[i] >= numDrops[i]]_vars

C21_Witness ==
    \E i \in Stages :
        /\ pc[i] \in {"top", "done"}
        /\ numDrops[i] >= 1
        /\ got[i] # <<>>
        /\ queue[i] # <<>>

=============================================================================
